---- MODULE Spec2Model ----
(***************************************************************************)
(* scripts/plot_latency.py: load two one-column latency CSV files, fit a   *)
(* MinMaxScaler on their concatenation, transform both, compute 100 shared *)
(* bin edges over the raw values, draw two histograms and show the figure. *)
(*                                                                         *)
(* The script is one sequential process; pc is the statement it is about   *)
(* to execute.  Numbers are exact fractions [num, den] with den > 0: the   *)
(* binary64 rounding of numpy and sklearn is not part of this model.       *)
(***************************************************************************)
EXTENDS Integers, Sequences, FiniteSets, TLC

VARIABLES
    mutexFile,      \* content of ../csvs/mutex_ns.csv, or Absent
    semFile,        \* content of ../csvs/sem_ns.csv, or Absent
    pc,             \* statement the process executes next
    df_mutex,       \* rows of the 'lat' column read from the mutex file
    df_sem,         \* rows of the 'lat' column read from the semaphore file
    scaler,         \* the MinMaxScaler object
    scaled_mutex,   \* result of scaler.transform(df_mutex)
    scaled_sem,     \* result of scaler.transform(df_sem)
    min_limit,      \* smallest raw sample of both tables
    max_limit,      \* largest raw sample of both tables
    bins,           \* the bin-edge array
    figure,         \* current matplotlib figure
    stdout,         \* lines printed
    uncaught,       \* the exception that ended the process, or "none"
    viewer,         \* "none", "open" (show() blocks), "closed", "returned"
    opened,         \* paths read_csv was called on in this run
    trace,          \* statements completed so far in this run
    runs,           \* number of the current run of the script
    prev            \* outputs of the previous run of the script

vars == <<mutexFile, semFile, pc, df_mutex, df_sem, scaler, scaled_mutex,
          scaled_sem, min_limit, max_limit, bins, figure, stdout, uncaught,
          viewer, opened, trace, runs, prev>>

(***************************** bounds **************************************)
MaxRows == 2        \* lines per file
MaxRuns == 2        \* runs of the script over the same files

\* The latencies a line of a file may hold.
Samples == {0, 1, 2}

(************************* program constants *******************************)
NumEdges == 100
MutexPath == "../csvs/mutex_ns.csv"
SemPath   == "../csvs/sem_ns.csv"

(****************************** rationals **********************************)
\* A number is a fraction [num, den] with den > 0, not reduced: two fractions
\* are the same number when RatEq holds.  Divisors are positive.
IntRat(n) == [num |-> n, den |-> 1]
RatAdd(a, b) == [num |-> a.num * b.den + b.num * a.den, den |-> a.den * b.den]
RatSub(a, b) == [num |-> a.num * b.den - b.num * a.den, den |-> a.den * b.den]
RatMul(a, b) == [num |-> a.num * b.num, den |-> a.den * b.den]
RatDiv(a, b) == [num |-> a.num * b.den, den |-> a.den * b.num]
RatEq(a, b)  == a.num * b.den = b.num * a.den
RatLt(a, b)  == a.num * b.den < b.num * a.den
RatLeq(a, b) == a.num * b.den <= b.num * a.den

(******************************* files *************************************)
Absent == [exists |-> FALSE, rows |-> <<>>]

\* One line of a file: a number, a non-numeric token, or a line with two
\* fields ("wide").
NumRow(v) == [kind |-> "num", val |-> v]
TextRow   == [kind |-> "text", val |-> 0]
WideRow   == [kind |-> "wide", val |-> 0]
Rows      == {NumRow(v) : v \in Samples} \cup {TextRow, WideRow}

SeqsUpTo(S, n) == UNION {[1..k -> S] : k \in 0..n}

\* Files whose first line has one field (a first line with two fields makes
\* read_csv build a two-column table, which is outside this model).
Contents == {r \in SeqsUpTo(Rows, MaxRows) : Len(r) > 0 => r[1].kind # "wide"}
Files    == {Absent} \cup {[exists |-> TRUE, rows |-> r] : r \in Contents}

(****************************** pandas *************************************)
\* pd.read_csv(path, header=None, names=['lat']): the exception it raises,
\* or "none".  A missing file raises FileNotFoundError; a line with more
\* fields than the first line raises ParserError; an empty file is read as
\* an empty table because names are given.
ReadError(file) ==
    IF ~file.exists THEN "FileNotFoundError"
    ELSE IF \E i \in 1..Len(file.rows) : file.rows[i].kind = "wide"
         THEN "ParserError"
         ELSE "none"

ReadCsv(file) == file.rows

\* The column holds numbers only (otherwise its dtype is object).
IsNumeric(df) == \A i \in 1..Len(df) : df[i].kind = "num"

Values(df) == [i \in 1..Len(df) |-> df[i].val]

\* Variant: only the first table is kept.
ConcatFirstOnly(a, b) == a

\* pd.concat([a, b])
Concat(a, b) == a \o b

\* Smallest and largest element of a non-empty sequence of numbers.
SeqMin(s) == CHOOSE m \in {s[i] : i \in 1..Len(s)} : \A i \in 1..Len(s) : m <= s[i]
SeqMax(s) == CHOOSE m \in {s[i] : i \in 1..Len(s)} : \A i \in 1..Len(s) : m >= s[i]

\* df['lat'].min() and df['lat'].max()
ColMin(df) == SeqMin(Values(df))
ColMax(df) == SeqMax(Values(df))

Min2(a, b) == IF a < b THEN a ELSE b
Max2(a, b) == IF a > b THEN a ELSE b

(************************** sklearn MinMaxScaler ***************************)
Unfitted ==
    [fitted |-> FALSE, data_min |-> 0, data_max |-> 0,
     scale |-> IntRat(1), min |-> IntRat(0)]

\* check_array: at least one sample, all of them convertible to float.
ArrayOk(df) == Len(df) > 0 /\ IsNumeric(df)

\* _handle_zeros_in_scale: a zero range is replaced by 1.
HandleZerosInScale(range) == IF range = 0 THEN 1 ELSE range

\* scale_ = (max - min of feature_range) / handled data_range, the
\* feature_range being the default (0, 1).
ScaleOf(lo, hi) == RatDiv(IntRat(1 - 0), IntRat(HandleZerosInScale(hi - lo)))

\* min_ = feature_range[0] - data_min * scale_
MinOf(lo, sc) == RatSub(IntRat(0), RatMul(IntRat(lo), sc))

\* scaler.fit(X) on a checked array
Fitted(df) ==
    LET lo == ColMin(df)
        hi == ColMax(df)
        sc == ScaleOf(lo, hi)
    IN  [fitted |-> TRUE, data_min |-> lo, data_max |-> hi,
         scale |-> sc, min |-> MinOf(lo, sc)]

\* X * scale_ + min_ for one value
TransformValue(sk, x) == RatAdd(RatMul(IntRat(x), sk.scale), sk.min)

\* scaler.transform(X) on a checked array
Transform(sk, df) == [i \in 1..Len(df) |-> TransformValue(sk, df[i].val)]

(******************************** numpy ************************************)
\* Variant: endpoint=False, the step is (stop - start) / num and the last
\* point is not set to stop.
LinspaceNoEndpoint(start, stop, num) ==
    LET step == RatDiv(IntRat(stop - start), IntRat(num))
    IN  [i \in 1..num |-> RatAdd(RatMul(IntRat(i - 1), step), IntRat(start))]

\* np.linspace(start, stop, num): step = (stop - start) / (num - 1),
\* y[i] = i * step + start for i = 0..num-1, and the last point is set to stop.
Linspace(start, stop, num) ==
    LET step == RatDiv(IntRat(stop - start), IntRat(num - 1))
    IN  [i \in 1..num |->
            IF i = num THEN IntRat(stop)
            ELSE RatAdd(RatMul(IntRat(i - 1), step), IntRat(start))]

\* Variant: edges must increase strictly.
EdgesOkStrict(b) == \A i \in 1..(Len(b) - 1) : RatLt(b[i], b[i + 1])

\* np.histogram rejects edges that decrease.
EdgesOk(b) == \A i \in 1..(Len(b) - 1) : RatLeq(b[i], b[i + 1])

CountBelow(a, v)  == Cardinality({i \in 1..Len(a) : RatLt(a[i], v)})
CountAtMost(a, v) == Cardinality({i \in 1..Len(a) : RatLeq(a[i], v)})

\* Variant: every edge, the last one too, is searched on the 'left', so the
\* last bin is open on its right.
CumCountRightOpen(a, b, i) == CountBelow(a, b[i])

\* np.histogram(a, bins=b): the cumulative count at edge i is
\* searchsorted(sorted a, b[i], 'left'), at the last edge 'right'.
CumCount(a, b, i) ==
    IF i = Len(b) THEN CountAtMost(a, b[i]) ELSE CountBelow(a, b[i])

\* The counts are the differences of the cumulative counts.
Histogram(a, b) ==
    [i \in 1..(Len(b) - 1) |-> CumCount(a, b, i + 1) - CumCount(a, b, i)]

(****************************** matplotlib *********************************)
NoFigure ==
    [created |-> FALSE, series |-> <<>>, title |-> "", xlabel |-> "",
     ylabel |-> "", legend |-> FALSE, grid |-> FALSE]

\* plt.figure(figsize=(12, 7))
NewFigure == [NoFigure EXCEPT !.created = TRUE]

\* The 'lat' column as the array of numbers handed to plt.hist.
RawColumn(df) == [i \in 1..Len(df) |-> IntRat(df[i].val)]

\* plt.hist(x, bins=b, alpha=0.7, label=l, color=c) adds one series of bars:
\* the figure holds the array drawn and the edges of its bins.
Series(x, b, l, c) == [label |-> l, color |-> c, data |-> x, edges |-> b]

\* The heights of the bars of a series: the counts np.histogram returns.
Counts(sr) == Histogram(sr.data, sr.edges)

(******************************* the script ********************************)
Message(filename) == <<"Error: No se encontró el archivo ", filename, ".">>

NoOutputs == [bins |-> <<>>, scaled_mutex |-> <<>>, scaled_sem |-> <<>>]

Init ==
    /\ mutexFile \in Files
    /\ semFile \in Files
    /\ pc = "load_mutex"
    /\ df_mutex = <<>>
    /\ df_sem = <<>>
    /\ scaler = Unfitted
    /\ scaled_mutex = <<>>
    /\ scaled_sem = <<>>
    /\ min_limit = 0
    /\ max_limit = 0
    /\ bins = <<>>
    /\ figure = NoFigure
    /\ stdout = <<>>
    /\ uncaught = "none"
    /\ viewer = "none"
    /\ opened = <<>>
    /\ trace = <<>>
    /\ runs = 1
    /\ prev = NoOutputs

\* Variant: the handler prints the message and does not call exit(), so the
\* script goes on to line 13 with a table undefined.
RaiseInTryNoExit(err, path) ==
    IF err = "FileNotFoundError"
    THEN /\ stdout' = Append(stdout, Message(path))
         /\ pc' = "crashed"
         /\ uncaught' = "NameError"
    ELSE /\ uncaught' = err
         /\ pc' = "crashed"
         /\ UNCHANGED stdout

\* Variant: the handler catches every exception (except Exception).
RaiseInTryCatchAll(err, path) ==
    /\ stdout' = Append(stdout, Message(path))
    /\ pc' = "exited"
    /\ UNCHANGED uncaught

\* Lines 9-11: an exception raised inside the try block.  FileNotFoundError is
\* caught, reported and followed by exit(); any other exception propagates.
RaiseInTry(err, path) ==
    IF err = "FileNotFoundError"
    THEN /\ stdout' = Append(stdout, Message(path))
         /\ pc' = "exited"
         /\ UNCHANGED uncaught
    ELSE /\ uncaught' = err
         /\ pc' = "crashed"
         /\ UNCHANGED stdout

\* An exception raised outside the try block ends the process.
RaiseUncaught(err) ==
    /\ uncaught' = err
    /\ pc' = "crashed"

\* Variant: a failed read of the mutex file is not raised before the
\* semaphore file has been read as well.
LoadMutexDeferred ==
    /\ pc = "load_mutex"
    /\ opened' = Append(opened, MutexPath)
    /\ df_mutex' = IF ReadError(mutexFile) = "none" THEN ReadCsv(mutexFile) ELSE <<>>
    /\ pc' = "load_sem"
    /\ trace' = Append(trace, "load_mutex")
    /\ UNCHANGED <<mutexFile, semFile, df_sem, scaler, scaled_mutex, scaled_sem,
                   min_limit, max_limit, bins, figure, stdout, uncaught, viewer, runs, prev>>

\* Line 7
LoadMutex ==
    /\ pc = "load_mutex"
    /\ opened' = Append(opened, MutexPath)
    /\ LET err == ReadError(mutexFile)
       IN  IF err = "none"
           THEN /\ df_mutex' = ReadCsv(mutexFile)
                /\ pc' = "load_sem"
                /\ trace' = Append(trace, "load_mutex")
                /\ UNCHANGED <<stdout, uncaught>>
           ELSE /\ RaiseInTry(err, MutexPath)
                /\ UNCHANGED <<df_mutex, trace>>
    /\ UNCHANGED <<mutexFile, semFile, df_sem, scaler, scaled_mutex,
                   scaled_sem, min_limit, max_limit, bins, figure, viewer, runs, prev>>

\* Line 8
LoadSem ==
    /\ pc = "load_sem"
    /\ opened' = Append(opened, SemPath)
    /\ LET err == ReadError(semFile)
       IN  IF err = "none"
           THEN /\ df_sem' = ReadCsv(semFile)
                /\ pc' = "fit"
                /\ trace' = Append(trace, "load_sem")
                /\ UNCHANGED <<stdout, uncaught>>
           ELSE /\ RaiseInTry(err, SemPath)
                /\ UNCHANGED <<df_sem, trace>>
    /\ UNCHANGED <<mutexFile, semFile, df_mutex, scaler, scaled_mutex,
                   scaled_sem, min_limit, max_limit, bins, figure, viewer, runs, prev>>

\* Lines 13-15
Fit ==
    /\ pc = "fit"
    /\ LET combined == Concat(df_mutex, df_sem)
       IN  IF ArrayOk(combined)
           THEN /\ scaler' = Fitted(combined)
                /\ pc' = "transform_mutex"
                /\ trace' = Append(trace, "fit")
                /\ UNCHANGED uncaught
           ELSE /\ RaiseUncaught("ValueError")
                /\ UNCHANGED <<scaler, trace>>
    /\ UNCHANGED <<mutexFile, semFile, df_mutex, df_sem, scaled_mutex,
                   scaled_sem, min_limit, max_limit, bins, figure, stdout, viewer, opened,
                   runs, prev>>

\* Line 17
TransformMutex ==
    /\ pc = "transform_mutex"
    /\ IF ArrayOk(df_mutex)
       THEN /\ scaled_mutex' = Transform(scaler, df_mutex)
            /\ pc' = "transform_sem"
            /\ trace' = Append(trace, "transform_mutex")
            /\ UNCHANGED uncaught
       ELSE /\ RaiseUncaught("ValueError")
            /\ UNCHANGED <<scaled_mutex, trace>>
    /\ UNCHANGED <<mutexFile, semFile, df_mutex, df_sem, scaler,
                   scaled_sem, min_limit, max_limit, bins, figure, stdout, viewer, opened,
                   runs, prev>>

\* Variant: the scaled column is written back to the semaphore file, as
\* whole numbers (to_csv after astype(int)).
Floor(r) == r.num \div r.den

TransformSemSaving ==
    /\ pc = "transform_sem"
    /\ IF ArrayOk(df_sem)
       THEN /\ scaled_sem' = Transform(scaler, df_sem)
            /\ semFile' = [semFile EXCEPT !.rows =
                   [i \in 1..Len(df_sem) |->
                       NumRow(Floor(TransformValue(scaler, df_sem[i].val)))]]
            /\ pc' = "figure"
            /\ trace' = Append(trace, "transform_sem")
            /\ UNCHANGED uncaught
       ELSE /\ RaiseUncaught("ValueError")
            /\ UNCHANGED <<scaled_sem, trace, semFile>>
    /\ UNCHANGED <<mutexFile, df_mutex, df_sem, scaler, scaled_mutex, min_limit, max_limit, bins,
                   figure, stdout, viewer, opened, runs, prev>>

\* Line 18
TransformSem ==
    /\ pc = "transform_sem"
    /\ IF ArrayOk(df_sem)
       THEN /\ scaled_sem' = Transform(scaler, df_sem)
            /\ pc' = "figure"
            /\ trace' = Append(trace, "transform_sem")
            /\ UNCHANGED uncaught
       ELSE /\ RaiseUncaught("ValueError")
            /\ UNCHANGED <<scaled_sem, trace>>
    /\ UNCHANGED <<mutexFile, semFile, df_mutex, df_sem, scaler,
                   scaled_mutex, min_limit, max_limit, bins, figure, stdout, viewer, opened,
                   runs, prev>>

\* Line 20
Figure ==
    /\ pc = "figure"
    /\ figure' = NewFigure
    /\ pc' = "bins"
    /\ trace' = Append(trace, "figure")
    /\ UNCHANGED <<mutexFile, semFile, df_mutex, df_sem, scaler, scaled_mutex,
                   scaled_sem, min_limit, max_limit, bins, stdout, uncaught, viewer, opened,
                   runs, prev>>

\* Lines 21-23
Bins ==
    /\ pc = "bins"
    /\ min_limit' = Min2(ColMin(df_mutex), ColMin(df_sem))
    /\ max_limit' = Max2(ColMax(df_mutex), ColMax(df_sem))
    /\ bins' = Linspace(min_limit', max_limit', NumEdges)
    /\ pc' = "hist_mutex"
    /\ trace' = Append(trace, "bins")
    /\ UNCHANGED <<mutexFile, semFile, df_mutex, df_sem, scaler, scaled_mutex,
                   scaled_sem, figure, stdout, uncaught, viewer, opened,
                   runs, prev>>

\* Variant: the scaled array is drawn.
HistMutexDataScaled == scaled_mutex

\* The arrays drawn by lines 24 and 25.
HistMutexData == RawColumn(df_mutex)
HistSemData   == RawColumn(df_sem)

\* plt.hist on the current figure; np.histogram raises ValueError when the
\* edges decrease.
Hist(at, next, x, label, color) ==
    /\ pc = at
    /\ IF EdgesOk(bins)
       THEN /\ figure' = [figure EXCEPT
                            !.series = Append(@, Series(x, bins, label, color))]
            /\ pc' = next
            /\ trace' = Append(trace, at)
            /\ UNCHANGED uncaught
       ELSE /\ RaiseUncaught("ValueError")
            /\ UNCHANGED <<figure, trace>>
    /\ UNCHANGED <<mutexFile, semFile, df_mutex, df_sem, scaler, scaled_mutex,
                   scaled_sem, min_limit, max_limit, bins, stdout, viewer, opened,
                   runs, prev>>

\* Line 24
HistMutex == Hist("hist_mutex", "hist_sem", HistMutexData, "Mutex", "skyblue")

\* Line 25
HistSem == Hist("hist_sem", "decorate", HistSemData, "Semáforo", "salmon")

\* Lines 26-30
Decorate ==
    /\ pc = "decorate"
    /\ figure' = [figure EXCEPT
                    !.title = "Distribución de Latencias en Idle (Mutex vs Semáforo)",
                    !.xlabel = "Latencia (ns)",
                    !.ylabel = "Frecuencia",
                    !.legend = TRUE,
                    !.grid = TRUE]
    /\ pc' = "show"
    /\ trace' = Append(trace, "decorate")
    /\ UNCHANGED <<mutexFile, semFile, df_mutex, df_sem, scaler, scaled_mutex,
                   scaled_sem, min_limit, max_limit, bins, stdout, uncaught, viewer, opened,
                   runs, prev>>

\* Variant: show() never blocks (plt.show(block=False)).
ShowNoBlock ==
    /\ pc = "show"
    /\ \E interactive \in BOOLEAN :
          IF interactive
          THEN viewer' = "open" /\ pc' = "done"
          ELSE viewer' = "returned" /\ pc' = "done"
    /\ trace' = Append(trace, "show")
    /\ UNCHANGED <<mutexFile, semFile, df_mutex, df_sem, scaler, scaled_mutex,
                   scaled_sem, min_limit, max_limit, bins, figure, stdout, uncaught, opened,
                   runs, prev>>

\* Line 31: plt.show() opens the viewer and blocks under an interactive
\* backend, and returns at once under a non-interactive one.
Show ==
    /\ pc = "show"
    /\ \E interactive \in BOOLEAN :
          IF interactive
          THEN viewer' = "open" /\ pc' = "blocked"
          ELSE viewer' = "returned" /\ pc' = "done"
    /\ trace' = Append(trace, "show")
    /\ UNCHANGED <<mutexFile, semFile, df_mutex, df_sem, scaler, scaled_mutex,
                   scaled_sem, min_limit, max_limit, bins, figure, stdout, uncaught, opened,
                   runs, prev>>

\* The user closes the viewer window: show() returns and the script ends.
CloseViewer ==
    /\ pc = "blocked"
    /\ viewer' = "closed"
    /\ pc' = "done"
    /\ UNCHANGED <<mutexFile, semFile, df_mutex, df_sem, scaler, scaled_mutex,
                   scaled_sem, min_limit, max_limit, bins, figure, stdout, uncaught, trace, opened,
                   runs, prev>>

Ended == pc \in {"exited", "crashed", "done"}

\* The script is started again on the same files: a new process, which
\* shares nothing with the previous one but the files.
Rerun ==
    /\ Ended
    /\ runs < MaxRuns
    /\ runs' = runs + 1
    /\ prev' = [bins |-> bins, scaled_mutex |-> scaled_mutex,
                scaled_sem |-> scaled_sem]
    /\ pc' = "load_mutex"
    /\ df_mutex' = <<>>
    /\ df_sem' = <<>>
    /\ scaler' = Unfitted
    /\ scaled_mutex' = <<>>
    /\ scaled_sem' = <<>>
    /\ min_limit' = 0
    /\ max_limit' = 0
    /\ bins' = <<>>
    /\ figure' = NoFigure
    /\ stdout' = <<>>
    /\ uncaught' = "none"
    /\ viewer' = "none"
    /\ opened' = <<>>
    /\ trace' = <<>>
    /\ UNCHANGED <<mutexFile, semFile>>

\* The statements of the script.
Step ==
    \/ LoadMutex
    \/ LoadSem
    \/ Fit
    \/ TransformMutex
    \/ TransformSem
    \/ Figure
    \/ Bins
    \/ HistMutex
    \/ HistSem
    \/ Decorate
    \/ Show

Next == Step \/ CloseViewer

Spec == Init /\ [][Next]_vars

\* The script's statements are executed one after the other until it ends.
LiveSpec == Spec /\ WF_vars(Step)

NextRerun == Next \/ Rerun

SpecRerun == Init /\ [][NextRerun]_vars

(***************************** properties **********************************)
\* The files, described by their content.
Parseable(file)   == file.exists /\ \A i \in 1..Len(file.rows) : file.rows[i].kind # "wide"
Unparseable(file) == file.exists /\ \E i \in 1..Len(file.rows) : file.rows[i].kind = "wide"
WellFormed(file)  ==
    /\ file.exists
    /\ Len(file.rows) > 0
    /\ \A i \in 1..Len(file.rows) : file.rows[i].kind = "num"
Faulty(file)      == file.exists /\ ~WellFormed(file)

WellFormedInputs == WellFormed(mutexFile) /\ WellFormed(semFile)

RawValues(file) == {file.rows[i].val : i \in 1..Len(file.rows)}
AllRaw    == RawValues(mutexFile) \cup RawValues(semFile)
GlobalMin == CHOOSE m \in AllRaw : \A v \in AllRaw : m <= v
GlobalMax == CHOOSE m \in AllRaw : \A v \in AllRaw : m >= v

Done(stmt) == \E i \in 1..Len(trace) : trace[i] = stmt

FirstMissing == IF ~mutexFile.exists THEN MutexPath ELSE SemPath

BeforeFit ==
    /\ ~scaler.fitted
    /\ scaled_mutex = <<>> /\ scaled_sem = <<>>
    /\ bins = <<>>
    /\ ~figure.created
    /\ viewer = "none"

\* C1 as stated: in every run in which either file is absent, exactly one
\* message naming a missing file is printed, the run ends by the deliberate
\* exit, and fitting, binning, drawing and showing are never reached.
C1_Original ==
    (~mutexFile.exists \/ ~semFile.exists) =>
        /\ pc \in {"load_mutex", "load_sem", "exited"}
        /\ uncaught = "none"
        /\ BeforeFit
        /\ Ended => stdout = <<Message(FirstMissing)>>

\* C1, amended: in every run in which the mutex file is absent, or the mutex
\* file is read without error and the semaphore file is absent, nothing is
\* printed before the run ends, it ends by the deliberate exit with exactly
\* one message, naming the first missing file in reading order, and fitting,
\* binning, drawing and showing are never reached.  When the semaphore file
\* is absent and the mutex file cannot be parsed, the run ends with the
\* unhandled ParserError and prints nothing.
C1_MissingFileReported ==
    /\ (~mutexFile.exists \/ (Parseable(mutexFile) /\ ~semFile.exists)) =>
          /\ pc \in {"load_mutex", "load_sem", "exited"}
          /\ uncaught = "none"
          /\ BeforeFit
          /\ IF Ended THEN stdout = <<Message(FirstMissing)>> ELSE stdout = <<>>
    /\ (Unparseable(mutexFile) /\ ~semFile.exists) =>
          /\ pc \in {"load_mutex", "crashed"}
          /\ stdout = <<>>
          /\ BeforeFit
          /\ Ended => uncaught = "ParserError"

C1_Witness ==
    /\ pc = "exited"
    /\ mutexFile.exists /\ ~semFile.exists
    /\ stdout = <<Message(SemPath)>>

TwoSeriesShown ==
    /\ Done("show")
    /\ Len(figure.series) = 2
    /\ figure.series[1].label = "Mutex"
    /\ figure.series[2].label = "Semáforo"
    /\ figure.series[1].edges = bins
    /\ figure.series[2].edges = bins
    /\ Len(bins) = NumEdges

\* C2: with two present, non-empty, numeric files the run never prints the
\* missing-file message and eventually calls show() on a figure holding
\* exactly two series, Mutex then Semáforo, over the same bin edges.
C2_WellFormedRunShows ==
    /\ [](WellFormedInputs => stdout = <<>>)
    /\ (WellFormedInputs ~> TwoSeriesShown)

C2_Witness == WellFormedInputs /\ TwoSeriesShown /\ stdout = <<>>

InUnit(r) == RatLeq(IntRat(0), r) /\ RatLeq(r, IntRat(1))

ScaledAs(df, scaled, top) ==
    /\ Len(scaled) = Len(df)
    /\ \A i \in 1..Len(df) :
          /\ InUnit(scaled[i])
          /\ df[i].val = GlobalMin => RatEq(scaled[i], IntRat(0))
          /\ df[i].val = GlobalMax => RatEq(scaled[i], IntRat(top))

\* C3 as stated: for every pair of non-empty sample sets the global minimum
\* is mapped to 0, the global maximum to 1, and every scaled element lies in
\* [0, 1], also when all samples are equal.
C3_Original ==
    Done("transform_sem") =>
        /\ ScaledAs(df_mutex, scaled_mutex, 1)
        /\ ScaledAs(df_sem, scaled_sem, 1)

\* C3, amended: the global minimum is mapped to 0 and every scaled element
\* lies in [0, 1]; the global maximum is mapped to 1 when it is larger than
\* the global minimum, and to 0 when all samples are equal.
C3_JointScaling ==
    Done("transform_sem") =>
        LET top == IF GlobalMin < GlobalMax THEN 1 ELSE 0
        IN  /\ ScaledAs(df_mutex, scaled_mutex, top)
            /\ ScaledAs(df_sem, scaled_sem, top)

C3_Witness ==
    /\ Done("transform_sem")
    /\ GlobalMin < GlobalMax
    /\ \E i \in 1..Len(scaled_mutex) : RatEq(scaled_mutex[i], IntRat(0))
    /\ \E i \in 1..Len(scaled_sem) : RatEq(scaled_sem[i], IntRat(1))

Gap(i) == RatSub(bins[i + 1], bins[i])

EdgesSpan ==
    /\ Len(bins) = 100
    /\ RatEq(bins[1], IntRat(GlobalMin))
    /\ RatEq(bins[100], IntRat(GlobalMax))
    /\ \A i \in 1..98 : RatEq(Gap(i), Gap(i + 1))

\* C4: the edge array has exactly 100 points, starts at the global raw
\* minimum, ends at the global raw maximum, is equally spaced and never
\* decreases from a point to the next, also when minimum and maximum are
\* equal (all points are then equal); it increases strictly when the minimum
\* is below the maximum.
C4_BinEdges ==
    Done("bins") =>
        /\ EdgesSpan
        /\ \A i \in 1..99 : RatLeq(bins[i], bins[i + 1])
        /\ GlobalMin < GlobalMax => \A i \in 1..99 : RatLt(bins[i], bins[i + 1])
        /\ GlobalMin = GlobalMax => \A i \in 1..100 : RatEq(bins[i], IntRat(GlobalMin))

C4_Witness ==
    /\ Done("bins")
    /\ GlobalMin < GlobalMax
    /\ RatEq(bins[1], IntRat(GlobalMin))
    /\ RatEq(bins[100], IntRat(GlobalMax))
    /\ RatLt(bins[1], bins[2])

Outputs == [bins |-> bins, scaled_mutex |-> scaled_mutex, scaled_sem |-> scaled_sem]

\* C5: a second run of the script on the same two files ends with the same
\* bin edges and the same scaled arrays as the run before it.
C5_RerunSameOutputs == (runs > 1 /\ Ended) => Outputs = prev

C5_Witness ==
    /\ runs = 2
    /\ pc = "done"
    /\ GlobalMin < GlobalMax
    /\ Len(prev.bins) = 100
    /\ Len(prev.scaled_mutex) > 0
    /\ Outputs = prev

NoDisplay == viewer = "none" /\ ~Done("show")

Crashes == NoDisplay /\ stdout = <<>> /\ (Ended => pc = "crashed" /\ uncaught # "none")

\* C6 as stated: whenever a file that is read is present but empty or
\* malformed, the run ends as an unhandled failure, prints no message and
\* never shows the figure, also when the mutex file is the faulty one and
\* the semaphore file is absent.
C6_Original ==
    (Faulty(mutexFile) \/ (mutexFile.exists /\ Faulty(semFile))) => Crashes

\* C6, amended: the run ends as an unhandled failure, prints no message and
\* never shows the figure when the mutex file cannot be parsed, or when both
\* files are present and one of them is empty, non-numeric or unparseable.
\* When the mutex file is empty or non-numeric but parseable and the
\* semaphore file is absent, the missing semaphore file is reported and the
\* run ends by the deliberate exit.
C6_OtherErrorsUnhandled ==
    /\ (\/ Unparseable(mutexFile)
        \/ /\ mutexFile.exists /\ semFile.exists
           /\ Faulty(mutexFile) \/ Faulty(semFile)) => Crashes
    /\ (Parseable(mutexFile) /\ Faulty(mutexFile) /\ ~semFile.exists) =>
          /\ NoDisplay
          /\ uncaught = "none"
          /\ Ended => (pc = "exited" /\ stdout = <<Message(SemPath)>>)

C6_Witness ==
    /\ pc = "crashed"
    /\ uncaught = "ValueError"
    /\ stdout = <<>>
    /\ WellFormed(mutexFile)
    /\ Faulty(semFile)

FileColumn(file) == [i \in 1..Len(file.rows) |-> [num |-> file.rows[i].val, den |-> 1]]

\* C7: the two drawn series are the raw samples of the two files, over the
\* bin edges computed from the raw samples; fitting the scaler and applying
\* it leave the loaded tables as they were read.
C7_RawValuesPlotted ==
    /\ Done("load_mutex") => df_mutex = mutexFile.rows
    /\ Done("load_sem") => df_sem = semFile.rows
    /\ Done("hist_mutex") =>
          /\ figure.series[1].data = FileColumn(mutexFile)
          /\ RatEq(figure.series[1].edges[1], IntRat(GlobalMin))
          /\ RatEq(figure.series[1].edges[100], IntRat(GlobalMax))
    /\ Done("hist_sem") =>
          /\ figure.series[2].data = FileColumn(semFile)
          /\ figure.series[2].edges = figure.series[1].edges

C7_Witness ==
    /\ Done("hist_sem")
    /\ GlobalMin < GlobalMax
    /\ scaled_mutex # FileColumn(mutexFile)
    /\ figure.series[1].data = FileColumn(mutexFile)

\* C8: the mutex file is read first; when it is absent the semaphore file is
\* never opened and the message names the mutex file, whether or not the
\* semaphore file exists; the semaphore file is named only after the mutex
\* file has been read without error.
C8_ReadOrder ==
    /\ opened \in {<<>>, <<MutexPath>>, <<MutexPath, SemPath>>}
    /\ ~mutexFile.exists =>
          /\ opened \in {<<>>, <<MutexPath>>}
          /\ stdout \in {<<>>, <<Message(MutexPath)>>}
          /\ Ended => stdout = <<Message(MutexPath)>>
    /\ (\E i \in 1..Len(stdout) : stdout[i] = Message(SemPath)) =>
          /\ Parseable(mutexFile)
          /\ Done("load_mutex")
          /\ df_mutex = mutexFile.rows
          /\ ~semFile.exists

C8_Witness ==
    /\ ~mutexFile.exists
    /\ ~semFile.exists
    /\ pc = "exited"
    /\ opened = <<MutexPath>>

FullTrace ==
    <<"load_mutex", "load_sem", "fit", "transform_mutex", "transform_sem",
      "figure", "bins", "hist_mutex", "hist_sem", "decorate", "show">>

IsPrefix(s, t) == Len(s) <= Len(t) /\ \A i \in 1..Len(s) : s[i] = t[i]

\* C9: the statements run in the order load, fit, transform, bin, render,
\* display, each once; show() is called only after both series are on the
\* figure; a run that ends normally has run them all; and under an
\* interactive backend the script does not end while the viewer is open.
C9_LinearPipeline ==
    /\ IsPrefix(trace, FullTrace)
    /\ Done("show") => Len(figure.series) = 2
    /\ pc \in {"blocked", "done"} <=> trace = FullTrace
    /\ pc = "blocked" <=> viewer = "open"
    /\ pc = "done" => viewer \in {"closed", "returned"}

C9_Witness == pc = "done" /\ viewer = "closed" /\ trace = FullTrace

RECURSIVE Sum(_)
Sum(s) == IF s = <<>> THEN 0 ELSE s[1] + Sum(Tail(s))

AllCounted(sr) ==
    \A c \in {Counts(sr)} :
        /\ Len(c) = 99
        /\ \A i \in 1..99 : c[i] >= 0
        /\ Sum(c) = Len(sr.data)

\* C10: each series has 99 bins and the counts of its bins add up to the
\* number of samples of its set: no sample is left out of either histogram.
C10_NoSampleDropped ==
    \A k \in 1..Len(figure.series) : AllCounted(figure.series[k])

C10_Witness ==
    /\ Len(figure.series) = 2
    /\ GlobalMin < GlobalMax
    /\ Counts(figure.series[1])[99] > 0
    /\ Len(figure.series[2].data) = 2

====
